---------------------------- MODULE Spec2Model ----------------------------
(***************************************************************************)
(* Model of src/solution.py, the diagonal Sudoku solver: the topology      *)
(* (boxes, units, peers), the assignment primitive, the three propagation  *)
(* rules, the fixpoint driver reduce_puzzle and the depth-first search.    *)
(*                                                                         *)
(* Scale.  The source fixes rows = cols = digits = nine symbols and 3x3    *)
(* squares.  Exhaustive exploration of that board is out of reach, so the  *)
(* model instantiates the same code on the 4x4 board: four rows, four      *)
(* columns, four digits, 2x2 squares and the two diagonals.  Every         *)
(* definition below is written against rows, cols and digits exactly as    *)
(* the source is (range(2, 9) is 2 .. len(digits) - 1).                    *)
(*                                                                         *)
(* Representation.  A box r+c is the pair <<r, c>>.  A candidate string    *)
(* is always a subsequence of digits (the source only ever deletes         *)
(* characters from '123456789' or stores one digit), so it is modelled as  *)
(* the set of its digits: string equality is set equality, len is          *)
(* Cardinality, and iteration over the string is ascending order.          *)
(*                                                                         *)
(* Objects.  Python dicts are mutable objects passed by reference.  heap   *)
(* holds the dict objects, a frame of search holds the index of the dict   *)
(* its local `values` is bound to, and dict(values) allocates a new        *)
(* object.                                                                 *)
(***************************************************************************)
EXTENDS Integers, Sequences, FiniteSets, TLC

VARIABLES
    grid,         \* the argument of solve: 16 characters, 0 standing for '.'
    heap,         \* the dict objects, by reference
    stack,        \* the frames of search, the innermost call last
    ret,          \* the value the last finished call returned
    assignments,  \* the module-level assignment log
    calls         \* the direct calls of assign_value made so far (AssignSpec)

vars == <<grid, heap, stack, ret, assignments, calls>>

----------------------------------------------------------------------------
(* Bounds of the model. *)

\* solve is explored on every grid with at most MaxGivens given digits ...
MaxGivens == 2
\* ... and on every completed board with at most MaxWrong cells overwritten.
MaxWrong == 1
\* AssignSpec makes at most MaxCalls consecutive calls of assign_value.
MaxCalls == 2

----------------------------------------------------------------------------
(* Topology *)

rows == <<1, 2, 3, 4>>
cols == <<1, 2, 3, 4>>
digits == <<1, 2, 3, 4>>

\* The set of the elements of a sequence.
Range(seq) == {seq[i] : i \in DOMAIN seq}

RECURSIVE Flatten(_)
Flatten(seqs) ==
    IF seqs = <<>> THEN <<>> ELSE Head(seqs) \o Flatten(Tail(seqs))

\* [s+t for s in a for t in b]
cross(a, b) ==
    Flatten([i \in DOMAIN a |-> [j \in DOMAIN b |-> <<a[i], b[j]>>]])

boxes == cross(rows, cols)

row_units == [i \in DOMAIN rows |-> cross(<<rows[i]>>, cols)]

\* Changed: cross(r, cols) where cross(rows, c) is meant.
column_units_as_rows == [j \in DOMAIN cols |-> cross(<<rows[j]>>, cols)]

column_units == [j \in DOMAIN cols |-> cross(rows, <<cols[j]>>)]

square_units ==
    LET rss == <<SubSeq(rows, 1, 2), SubSeq(rows, 3, 4)>>
        css == <<SubSeq(cols, 1, 2), SubSeq(cols, 3, 4)>>
    IN  Flatten([i \in DOMAIN rss |->
                    [j \in DOMAIN css |-> cross(rss[i], css[j])]])

\* Changed: the diagonals are left out of the units.
diagonal_units_left_out == <<>>

\* zip(rows, cols) and zip(reversed(rows), cols)
diagonal_units ==
    << [i \in DOMAIN rows |-> <<rows[i], cols[i]>>],
       [i \in DOMAIN rows |-> <<rows[Len(rows) + 1 - i], cols[i]>>] >>

unit_list == row_units \o column_units \o square_units \o diagonal_units

\* The units a box is in.
unit_dict ==
    [s \in Range(boxes) |->
        SelectSeq(unit_list, LAMBDA u : s \in Range(u))]

\* set(sum(units[s], [])) - {s}
peer_dict ==
    [s \in Range(boxes) |-> Range(Flatten(unit_dict[s])) \ {s}]

peers(s) == peer_dict[s]

\* The position of a box in boxes(): the order of its name as a string.
BoxIndex(s) == CHOOSE i \in DOMAIN boxes : boxes[i] = s

----------------------------------------------------------------------------
(* Board states *)

len(value) == Cardinality(value)

AllDigits == Range(digits)

\* chars = [c if c != '.' else digits ...]; dict(zip(boxes(), chars))
grid_values(g) ==
    [s \in Range(boxes) |->
        IF g[BoxIndex(s)] = 0 THEN AllDigits ELSE {g[BoxIndex(s)]}]

n_solved(values) == Cardinality({s \in Range(boxes) : len(values[s]) = 1})

\* Changed: any() where all() is meant.
is_solved_any(values) == \E s \in Range(boxes) : len(values[s]) = 1

is_solved(values) == \A s \in Range(boxes) : len(values[s]) = 1


----------------------------------------------------------------------------
(* Assignment primitive *)

\* What assign_value leaves in the dict it is given (it mutates the dict in
\* place and returns it).
assign_value(values, box, value) ==
    IF values[box] = value
    THEN values
    ELSE [values EXCEPT ![box] = value]

\* Changed: the early return of an unchanged box is missing.
assign_log_unguarded(log, values, box, value) ==
    IF len(value) = 1
    THEN Append(log, [values EXCEPT ![box] = value])
    ELSE log

\* What assign_value leaves in the module-level list `assignments`.
assign_log(log, values, box, value) ==
    IF values[box] = value
    THEN log
    ELSE IF len(value) = 1
         THEN Append(log, [values EXCEPT ![box] = value])
         ELSE log

----------------------------------------------------------------------------
(* Propagation rules *)

\* The model checker evaluates the arguments of an operator when they are
\* used.  The({F(x) : x \in {e}}) is F(e), with e computed first and
\* once: the loops below pass on a dict, not a tower of pending updates.
The(S) == CHOOSE r \in S : TRUE

\* for peer in peers[box]: values = assign_value(values, peer,
\*     values[peer].replace(digit, ''))
\* digit is read from the dict when the box is reached.  peers[box] is a
\* set, walked here in the order of boxes(): box is not its own peer, so
\* every order leaves the same dict.
RECURSIVE eliminate_peers(_, _, _, _)
eliminate_peers(values, digit, box_peers, i) ==
    IF i > Len(box_peers)
    THEN values
    ELSE The({ eliminate_peers(next, digit, box_peers, i + 1) :
                 next \in {assign_value(values, box_peers[i],
                                        values[box_peers[i]] \ digit)} })

eliminate_box(values, box) ==
    The({ eliminate_peers(values, values[box], box_peers, 1) :
            box_peers \in {SelectSeq(boxes, LAMBDA s : s \in peers(box))} })

RECURSIVE eliminate_from(_, _, _)
eliminate_from(values, solved_values, i) ==
    IF i > Len(solved_values)
    THEN values
    ELSE The({ eliminate_from(next, solved_values, i + 1) :
                 next \in {eliminate_box(values, solved_values[i])} })

eliminate(values) ==
    The({ eliminate_from(values, solved_values, 1) :
            solved_values \in {SelectSeq(boxes, LAMBDA box : len(values[box]) = 1)} })

\* The candidate strings of the boxes cs[i ..] in order of first appearance,
\* those in `seen` left out: the insertion order of the keys of a dict.
RECURSIVE FirstSeen(_, _, _, _)
FirstSeen(values, cs, i, seen) ==
    IF i > Len(cs) THEN <<>>
    ELSE IF values[cs[i]] \in seen
         THEN FirstSeen(values, cs, i + 1, seen)
         ELSE <<values[cs[i]]>>
                 \o FirstSeen(values, cs, i + 1, seen \cup {values[cs[i]]})

\* for length in range(2, 9): the boxes of the unit by candidate length,
\* then in the order of the unit.
RECURSIVE twin_candidates_from(_, _, _)
twin_candidates_from(values, unit, length) ==
    IF length > Len(digits) - 1
    THEN <<>>
    ELSE SelectSeq(unit, LAMBDA box : len(values[box]) = length)
            \o twin_candidates_from(values, unit, length + 1)

\* Changed: range(3, 9), the pairs are skipped.
twin_candidates_from_three(values, unit) ==
    twin_candidates_from(values, unit, 3)

twin_candidates(values, unit) == twin_candidates_from(values, unit, 2)

\* possible_twins: its keys in insertion order, and the boxes of a key.
possible_twins_keys(values, unit) ==
    The({ FirstSeen(values, cs, 1, {}) : cs \in {twin_candidates(values, unit)} })

possible_twins(values, unit, key) ==
    SelectSeq(twin_candidates(values, unit), LAMBDA box : values[box] = key)

\* Eliminate the naked twins as possibilities for their peers.
RECURSIVE twins_eliminate(_, _, _, _)
twins_eliminate(values, candidate_digits, unit_peers, i) ==
    IF i > Len(unit_peers)
    THEN values
    ELSE The({ twins_eliminate(next, candidate_digits, unit_peers, i + 1) :
                 next \in {assign_value(values, unit_peers[i],
                                        values[unit_peers[i]] \ candidate_digits)} })

\* The loop over the keys of possible_twins: `recorded` is the dict as it
\* was when possible_twins was built, `values` the dict as it is now.
RECURSIVE twins_keys(_, _, _, _, _)
\* One key of possible_twins: the test of the group and the eliminations.
twins_key(values, unit, candidate_digits, twins) ==
    IF Len(twins) > 1 /\ Len(twins) = len(candidate_digits)
    THEN The({ twins_eliminate(values, candidate_digits, unit_peers, 1) :
                 unit_peers \in {SelectSeq(unit, LAMBDA box : box \notin Range(twins))} })
    ELSE values

twins_keys(values, recorded, unit, keys, i) ==
    IF i > Len(keys)
    THEN values
    ELSE The({ twins_keys(next, recorded, unit, keys, i + 1) :
                 next \in { twins_key(values, unit, keys[i], twins) :
                              twins \in {possible_twins(recorded, unit, keys[i])} } })

naked_twins_unit(values, unit) ==
    The({ twins_keys(values, values, unit, keys, 1) :
            keys \in {possible_twins_keys(values, unit)} })

\* The dict after the first n units of unit_list have been processed.
RECURSIVE naked_twins_upto(_, _)
naked_twins_upto(values, n) ==
    IF n = 0
    THEN values
    ELSE The({ naked_twins_unit(done, unit_list[n]) :
                 done \in {naked_twins_upto(values, n - 1)} })

naked_twins(values) == naked_twins_upto(values, Len(unit_list))

\* One (unit, digit) iteration of only_choice.
only_choice_digit(values, unit, digit) ==
    The({ IF Len(candidates) = 1
          THEN assign_value(values, candidates[1], {digit})
          ELSE values :
            candidates \in {SelectSeq(unit, LAMBDA box : digit \in values[box])} })

\* for digit in digits, for one unit
RECURSIVE only_choice_unit(_, _, _)
only_choice_unit(values, unit, d) ==
    IF d > Len(digits)
    THEN values
    ELSE The({ only_choice_unit(next, unit, d + 1) :
                 next \in {only_choice_digit(values, unit, digits[d])} })

\* for unit in unit_list()
RECURSIVE only_choice_from(_, _)
only_choice_from(values, u) ==
    IF u > Len(unit_list)
    THEN values
    ELSE The({ only_choice_from(next, u + 1) :
                 next \in {only_choice_unit(values, unit_list[u], 1)} })

only_choice(values) == only_choice_from(values, 1)

----------------------------------------------------------------------------
(* Fixpoint driver *)

\* len([box for box in values if len(values[box]) == 0])
HasEmpty(values) == \E s \in Range(boxes) : len(values[s]) = 0

\* Changed: the boxes without candidates are looked for only once the
\* loop has stalled.
pass_end_when_stalled(values, solved_values_before) ==
    LET stalled == (solved_values_before = n_solved(values))
    IN  IF ~stalled THEN "again"
        ELSE IF HasEmpty(values) THEN "False"
        ELSE "return"

\* The end of a pass of reduce_puzzle: "False" (return False), "return"
\* (stalled: the loop ends and values is returned) or "again".
pass_end(values, solved_values_before) ==
    LET stalled == (solved_values_before = n_solved(values))
    IN  IF HasEmpty(values) THEN "False"
        ELSE IF stalled THEN "return"
        ELSE "again"

\* One pass of the loop body.
reduce_pass(values) ==
    The({ only_choice(twinned) :
            twinned \in { naked_twins(eliminated) :
                            eliminated \in {eliminate(values)} } })

\* reduce_puzzle as a function: [ok |-> FALSE] is the return value False.
RECURSIVE reduce_puzzle(_)
reduce_end(values, after, end) ==
    IF end = "False" THEN [ok |-> FALSE, values |-> after]
    ELSE IF end = "return" THEN [ok |-> TRUE, values |-> after]
    ELSE reduce_puzzle(after)

reduce_puzzle(values) ==
    The({ reduce_end(values, after, pass_end(after, n_solved(values))) :
            after \in {reduce_pass(values)} })

\* n, s = min((len(values[s]), s) for s in boxes() if len(values[s]) > 1)
choose_box(values) ==
    CHOOSE s \in Range(boxes) :
        /\ len(values[s]) > 1
        /\ \A t \in Range(boxes) :
              len(values[t]) > 1 =>
                 \/ len(values[s]) < len(values[t])
                 \/ /\ len(values[s]) = len(values[t])
                    /\ BoxIndex(s) <= BoxIndex(t)

\* The characters of a candidate string in the order `for value in
\* values[s]` visits them.
chars(value) == SelectSeq(digits, LAMBDA d : d \in value)


----------------------------------------------------------------------------
(* The inputs the model explores *)

Positions == DOMAIN boxes

Blank == [i \in Positions |-> 0]

\* The grid with the digits f at the positions DOMAIN f and '.' elsewhere.
WithGivens(f) == [i \in Positions |-> IF i \in DOMAIN f THEN f[i] ELSE 0]

SparseGrids ==
    UNION { {WithGivens(f) : f \in [S -> AllDigits]} :
            S \in {T \in SUBSET Positions : Cardinality(T) <= MaxGivens} }

\* The completed boards of the rules, built independently of the solver:
\* four rows, each a permutation of the digits, whose columns, squares and
\* diagonals hold every digit.
Perms == {p \in [1 .. 4 -> AllDigits] : \A i, j \in 1 .. 4 : p[i] = p[j] => i = j}

Bands ==
    {b \in Perms \X Perms :
        /\ {b[1][1], b[1][2], b[2][1], b[2][2]} = AllDigits
        /\ {b[1][3], b[1][4], b[2][3], b[2][4]} = AllDigits}

Completions ==
    LET full == {<<t[1], t[2], b[1], b[2]>> : t \in Bands, b \in Bands}
        good(m) ==
            /\ \A c \in 1 .. 4 : {m[r][c] : r \in 1 .. 4} = AllDigits
            /\ {m[i][i] : i \in 1 .. 4} = AllDigits
            /\ {m[5 - i][i] : i \in 1 .. 4} = AllDigits
    IN  {[i \in Positions |-> m[boxes[i][1]][boxes[i][2]]] :
            m \in {x \in full : good(x)}}

\* A completed board with at most MaxWrong of its cells overwritten.
NearFullGrids ==
    UNION { { [i \in Positions |-> IF i \in DOMAIN f THEN f[i] ELSE c[i]] :
              f \in [S -> AllDigits], c \in Completions } :
            S \in {T \in SUBSET Positions : Cardinality(T) <= MaxWrong} }

Grids == SparseGrids \cup NearFullGrids

----------------------------------------------------------------------------
(* Return values and frames *)

Running == [kind |-> "running", values |-> grid_values(Blank)]
RetFalse == [kind |-> "False", values |-> grid_values(Blank)]
RetNone == [kind |-> "None", values |-> grid_values(Blank)]
RetDict(values) == [kind |-> "dict", values |-> values]

\* Changed: `return attempt` without the test.
always_truthy(r) == TRUE

\* `if attempt:` -- a dict of 16 keys is true, False and None are not.
Truthy(r) == r.kind = "dict"

\* A frame of search: the object its `values` is bound to, where it is, the
\* solved count taken at the head of the pass, the chosen box and the
\* candidates of that box not tried yet.
Frame(ref, pc) ==
    [values |-> ref, pc |-> pc, before |-> 0, s |-> boxes[1], todo |-> <<>>]

Top == stack[Len(stack)]
Cur == heap[Top.values]

SetTop(f) == [stack EXCEPT ![Len(stack)] = f]
SetCur(values) == [heap EXCEPT ![Top.values] = values]

\* A call returns: its frame goes, and so does every object no frame is
\* bound to any more.
Pop == SubSeq(stack, 1, Len(stack) - 1)
Live(stk) == {stk[i].values : i \in DOMAIN stk}
Collect(stk) ==
    SubSeq(heap, 1, IF Live(stk) = {} THEN 0
                    ELSE CHOOSE m \in Live(stk) : \A n \in Live(stk) : n <= m)

\* Changed: assign_value(values, s, value), the dict itself and no copy.
dict_alias(ref) == ref

\* dict(values): the reference of the copy, a new object.
dict_copy(ref) == Len(heap) + 1


----------------------------------------------------------------------------
(* solve and search, one step at a time.                                   *)
(*                                                                         *)
(* These actions follow the candidate sets.  The order in which eliminate  *)
(* walks the set peers[box] is not fixed by the language, and only the     *)
(* order of the snapshots in `assignments` depends on it; the log is       *)
(* write-only for the solver, so it is followed in AssignSpec below, where *)
(* assign_value is the action, and left alone here.                        *)

Init ==
    /\ grid \in Grids
    /\ heap = <<>>
    /\ stack = <<>>
    /\ ret = Running
    /\ assignments = <<>>
    /\ calls = <<>>

Done == stack = <<>> /\ ret # Running

\* solve: values = grid_values(grid); return search(values)
Solve ==
    /\ stack = <<>> /\ heap = <<>> /\ ret = Running
    /\ heap' = <<grid_values(grid)>>
    /\ stack' = <<Frame(1, "eliminate")>>
    /\ UNCHANGED <<grid, ret, assignments, calls>>

InFrame(pc) == stack # <<>> /\ ret = Running /\ Top.pc = pc

\* reduce_puzzle, head of the loop body:
\* solved_values_before = n_solved(values); values = eliminate(values)
Eliminate ==
    /\ InFrame("eliminate")
    /\ stack' = SetTop([Top EXCEPT !.before = n_solved(Cur),
                                   !.pc = "naked_twins"])
    /\ heap' = SetCur(eliminate(Cur))
    /\ UNCHANGED <<grid, ret, assignments, calls>>

\* values = naked_twins(values)
NakedTwins ==
    /\ InFrame("naked_twins")
    /\ stack' = SetTop([Top EXCEPT !.pc = "only_choice"])
    /\ heap' = SetCur(naked_twins(Cur))
    /\ UNCHANGED <<grid, ret, assignments, calls>>

\* values = only_choice(values)
OnlyChoice ==
    /\ InFrame("only_choice")
    /\ stack' = SetTop([Top EXCEPT !.pc = "check"])
    /\ heap' = SetCur(only_choice(Cur))
    /\ UNCHANGED <<grid, ret, assignments, calls>>

\* The end of the pass.  A box without candidates: reduce_puzzle returns
\* False, and so does search (`if values is False: return False`).
PassContradiction ==
    /\ InFrame("check")
    /\ pass_end(Cur, Top.before) = "False"
    /\ ret' = RetFalse
    /\ stack' = Pop
    /\ heap' = Collect(Pop)
    /\ UNCHANGED <<grid, assignments, calls>>

PassStalled ==
    /\ InFrame("check")
    /\ pass_end(Cur, Top.before) = "return"
    /\ stack' = SetTop([Top EXCEPT !.pc = "is_solved"])
    /\ UNCHANGED <<grid, heap, ret, assignments, calls>>

PassAgain ==
    /\ InFrame("check")
    /\ pass_end(Cur, Top.before) = "again"
    /\ stack' = SetTop([Top EXCEPT !.pc = "eliminate"])
    /\ UNCHANGED <<grid, heap, ret, assignments, calls>>

\* if is_solved(values): return values
ReturnSolved ==
    /\ InFrame("is_solved")
    /\ is_solved(Cur)
    /\ ret' = RetDict(Cur)
    /\ stack' = Pop
    /\ heap' = Collect(Pop)
    /\ UNCHANGED <<grid, assignments, calls>>

\* Choose one of the unfilled squares with the fewest possibilities.
ChooseBox ==
    /\ InFrame("is_solved")
    /\ ~is_solved(Cur)
    /\ LET s == choose_box(Cur)
       IN  stack' = SetTop([Top EXCEPT !.pc = "for", !.s = s,
                                       !.todo = chars(Cur[s])])
    /\ UNCHANGED <<grid, heap, ret, assignments, calls>>

\* branch = assign_value(dict(values), s, value); attempt = search(branch)
Branch ==
    /\ InFrame("for")
    /\ Top.todo # <<>>
    /\ LET value == {Head(Top.todo)}
           branch == dict_copy(Top.values)
           copied == Append(heap, Cur)
       IN  /\ heap' = [copied EXCEPT
                          ![branch] = assign_value(copied[branch], Top.s, value)]
           /\ stack' = Append(SetTop([Top EXCEPT !.pc = "attempt"]),
                              Frame(branch, "eliminate"))
    /\ UNCHANGED <<grid, ret, assignments, calls>>

\* The for loop ends and the function body with it: search returns None.
Exhausted ==
    /\ InFrame("for")
    /\ Top.todo = <<>>
    /\ ret' = RetNone
    /\ stack' = Pop
    /\ heap' = Collect(Pop)
    /\ UNCHANGED <<grid, assignments, calls>>

\* if attempt: return attempt
AttemptSucceeded ==
    /\ stack # <<>> /\ Top.pc = "attempt" /\ ret # Running
    /\ Truthy(ret)
    /\ stack' = Pop
    /\ heap' = Collect(Pop)
    /\ UNCHANGED <<grid, ret, assignments, calls>>

\* otherwise the loop goes on to the next character of values[s]
AttemptFailed ==
    /\ stack # <<>> /\ Top.pc = "attempt" /\ ret # Running
    /\ ~Truthy(ret)
    /\ stack' = SetTop([Top EXCEPT !.pc = "for", !.todo = Tail(Top.todo)])
    /\ ret' = Running
    /\ UNCHANGED <<grid, heap, assignments, calls>>

Next ==
    \/ Solve
    \/ Eliminate
    \/ NakedTwins
    \/ OnlyChoice
    \/ PassContradiction
    \/ PassStalled
    \/ PassAgain
    \/ ReturnSolved
    \/ ChooseBox
    \/ Branch
    \/ Exhausted
    \/ AttemptSucceeded
    \/ AttemptFailed

Spec == Init /\ [][Next]_vars

\* The grids whose givens are all the same digit, the blank grid among
\* them.
OneDigitGrids ==
    {g \in SparseGrids : \A i, j \in Positions : (g[i] # 0 /\ g[j] # 0) => g[i] = g[j]}

LiveInit ==
    /\ grid \in OneDigitGrids
    /\ heap = <<>>
    /\ stack = <<>>
    /\ ret = Running
    /\ assignments = <<>>
    /\ calls = <<>>

\* The program is one thread that runs to completion: a step that can be
\* taken is taken.
LiveSpec == LiveInit /\ [][Next]_vars /\ WF_vars(Next)

----------------------------------------------------------------------------
(* assign_value called directly, with its log *)

AssignInit ==
    /\ grid = Blank
    /\ heap = <<grid_values(grid)>>
    /\ stack = <<>>
    /\ ret = Running
    /\ assignments = <<>>
    /\ calls = <<>>

AssignValue(box, value) ==
    /\ Len(calls) < MaxCalls
    /\ heap' = [heap EXCEPT ![1] = assign_value(heap[1], box, value)]
    /\ assignments' = assign_log(assignments, heap[1], box, value)
    /\ calls' = Append(calls, [box |-> box, value |-> value])
    /\ UNCHANGED <<grid, stack, ret>>

AssignNext ==
    \E box \in Range(boxes), value \in SUBSET AllDigits : AssignValue(box, value)

AssignSpec == AssignInit /\ [][AssignNext]_vars


-----------------------------------------------------------------------------
(* The rules of the game, stated on the coordinates and not on unit_list.  *)

Coord == 1 .. 4

EachDigitOnce(values, unit) ==
    /\ \A s \in unit : len(values[s]) = 1
    /\ UNION {values[s] : s \in unit} = AllDigits

RowBoxes(r) == {<<r, c>> : c \in Coord}
ColBoxes(c) == {<<r, c>> : r \in Coord}
BlockBoxes(i, j) == {<<r, c>> : r \in {2 * i - 1, 2 * i}, c \in {2 * j - 1, 2 * j}}
MainDiagonal == {<<i, i>> : i \in Coord}
AntiDiagonal == {<<5 - i, i>> : i \in Coord}

StandardValid(values) ==
    /\ \A r \in Coord : EachDigitOnce(values, RowBoxes(r))
    /\ \A c \in Coord : EachDigitOnce(values, ColBoxes(c))
    /\ \A i, j \in {1, 2} : EachDigitOnce(values, BlockBoxes(i, j))

DiagonalValid(values) ==
    /\ EachDigitOnce(values, MainDiagonal)
    /\ EachDigitOnce(values, AntiDiagonal)

GivensKept(g, values) ==
    \A i \in Positions : g[i] # 0 => values[boxes[i]] = {g[i]}

\* The completed boards that agree with the givens of g.
CompletionsOf(g) == {c \in Completions : \A i \in Positions : g[i] # 0 => g[i] = c[i]}

\* The completed board c is still among the candidates of values.
Within(c, values) == \A i \in Positions : c[i] \in values[boxes[i]]

RowRepeats(g) ==
    \E i, j \in Positions :
        i # j /\ g[i] # 0 /\ g[i] = g[j] /\ boxes[i][1] = boxes[j][1]


-----------------------------------------------------------------------------
(* Claims.                                                                 *)

\* C1: every board solve returns is a valid completion of the input: each
\* box holds one digit, the givens are kept, and every row, column, block
\* and both diagonals hold each digit once.  A grid with a digit repeated
\* in a row is therefore never answered with a board.
C1_ReturnedBoardValid ==
    (Done /\ ret.kind = "dict") =>
        /\ is_solved(ret.values)
        /\ GivensKept(grid, ret.values)
        /\ StandardValid(ret.values)
        /\ DiagonalValid(ret.values)
        /\ ~RowRepeats(grid)

\* solve has returned a board for a grid with givens and blanks, after a
\* search that went below the first call.
C1_Witness ==
    /\ Done
    /\ ret.kind = "dict"
    /\ \E i \in Positions : grid[i] # 0
    /\ Cardinality({i \in Positions : grid[i] = 0}) > 1

\* C2 (as stated): solve returns a solved board or the one failure value,
\* False, whether the failure is a contradiction or an exhausted search.
C2_OneFailureValue ==
    Done => \/ (ret.kind = "dict" /\ is_solved(ret.values))
            \/ ret = RetFalse

\* C3 (as stated): reduce_puzzle applied to a board it returned as stalled
\* and consistent returns that board unchanged.
C3_ReduceIdempotent ==
    InFrame("is_solved") => reduce_puzzle(Cur) = [ok |-> TRUE, values |-> Cur]

\* The candidate sets a naked group can have: range(2, 9) digits.
TwinSets == {S \in SUBSET AllDigits : len(S) >= 2 /\ len(S) <= Len(digits) - 1}

\* The boxes of the unit that hold exactly the candidate set S.
Holding(values, unit, S) == {s \in Range(unit) : values[s] = S}

\* Exactly len(S) boxes of the unit hold S.
NakedGroup(values, unit, S) == Cardinality(Holding(values, unit, S)) = len(S)

\* No box of the unit outside `group` has a digit of S left.
ClearedOutside(values, unit, group, S) ==
    \A s \in Range(unit) \ group : values[s] \cap S = {}

\* C4 (as stated): for every unit, if exactly k boxes of the unit hold the
\* same set S of k digits when naked_twins is called, no other box of the
\* unit has a digit of S in the board naked_twins returns, whatever was
\* changed while the earlier units were processed.
C4_TwinsAtCallTime ==
    InFrame("naked_twins") =>
        \A after \in {naked_twins(Cur)} :
            \A n \in DOMAIN unit_list : \A S \in TwinSets :
                NakedGroup(Cur, unit_list[n], S)
                    => ClearedOutside(after, unit_list[n],
                                      Holding(Cur, unit_list[n], S), S)

\* C4 (amended): for every unit, if exactly k boxes of the unit hold the
\* same set S of k digits at the moment the loop of naked_twins reaches
\* that unit, no other box of the unit has a digit of S in the board
\* naked_twins returns.
C4_TwinsWhenUnitReached ==
    InFrame("naked_twins") =>
        \A after \in {naked_twins(Cur)} :
            \A n \in DOMAIN unit_list :
                \A reached \in {naked_twins_upto(Cur, n - 1)} :
                    \A S \in TwinSets :
                        NakedGroup(reached, unit_list[n], S)
                            => ClearedOutside(after, unit_list[n],
                                              Holding(reached, unit_list[n], S), S)

\* naked_twins is about to run on a board where a unit, when the loop
\* reaches it, has a naked group and another box with one of its digits;
\* the returned board has that digit removed.
C4_Witness ==
    /\ InFrame("naked_twins")
    /\ \E after \in {naked_twins(Cur)} :
           \E n \in DOMAIN unit_list :
               \E reached \in {naked_twins_upto(Cur, n - 1)} :
                   \E S \in TwinSets :
                       /\ NakedGroup(reached, unit_list[n], S)
                       /\ \E s \in Range(unit_list[n]) \ Holding(reached, unit_list[n], S) :
                              /\ reached[s] \cap S # {}
                              /\ after[s] \cap S = {}

\* C5 (as stated): for every board, is_solved is true only if every row,
\* column, block and diagonal holds each digit once.
C5_SolvedImpliesValidAnyBoard ==
    \A i \in DOMAIN heap :
        is_solved(heap[i]) => (StandardValid(heap[i]) /\ DiagonalValid(heap[i]))

\* C5 (amended): for every board reduce_puzzle has returned as stalled and
\* consistent, which are the boards search hands to is_solved, is_solved
\* is true only if every row, column, block and diagonal holds each digit
\* once.
C5_SolvedImpliesValidAfterReduce ==
    (InFrame("is_solved") /\ is_solved(Cur))
        => (StandardValid(Cur) /\ DiagonalValid(Cur))

\* search is at its is_solved test with a board of single digits that
\* came out of more than the givens.
C5_Witness ==
    /\ InFrame("is_solved")
    /\ is_solved(Cur)
    /\ \E i \in Positions : grid[i] = 0

\* The boxes eliminate has gone through after n of the solved boxes.
EliminatedAfter(values, n) ==
    eliminate_from(values,
                   SubSeq(SelectSeq(boxes, LAMBDA box : len(values[box]) = 1), 1, n),
                   1)

SolvedCount(values) == Len(SelectSeq(boxes, LAMBDA box : len(values[box]) = 1))

\* C7: if at any point of the elimination step of a pass a box is left
\* without candidates, the box is still without candidates when the pass
\* ends, after the rest of eliminate, naked_twins and only_choice, and
\* reduce_puzzle returns False at the end of that same pass.
C7_EmptyReportedSamePass ==
    InFrame("eliminate") =>
        \A after \in {reduce_pass(Cur)} :
            \A n \in 0 .. SolvedCount(Cur) :
                \A mid \in {EliminatedAfter(Cur, n)} :
                    \A s \in Range(boxes) :
                        mid[s] = {} =>
                            /\ after[s] = {}
                            /\ pass_end(after, n_solved(Cur)) = "False"

\* A pass is about to start in which elimination empties a box although
\* the number of solved boxes changes during the pass.
C7_Witness ==
    /\ InFrame("eliminate")
    /\ \E n \in 0 .. SolvedCount(Cur) : HasEmpty(EliminatedAfter(Cur, n))
    /\ n_solved(reduce_pass(Cur)) # n_solved(Cur)

\* Each rule keeps every completed board that is still among the
\* candidates of the board it is applied to.
RuleKeepsCompletions(values, after) ==
    \A c \in Completions : Within(c, values) => Within(c, after)

\* C9: if a completed board agreeing with the givens exists, solve returns
\* a solved board and never a failure value; and no propagation rule
\* removes a digit that a completed board among the candidates uses.
C9_SearchComplete ==
    /\ (Done /\ CompletionsOf(grid) # {})
           => (ret.kind = "dict" /\ is_solved(ret.values))
    /\ InFrame("eliminate") => RuleKeepsCompletions(Cur, eliminate(Cur))
    /\ InFrame("naked_twins") => RuleKeepsCompletions(Cur, naked_twins(Cur))
    /\ InFrame("only_choice") => RuleKeepsCompletions(Cur, only_choice(Cur))

\* In the search of a grid that has a completion an attempt has failed:
\* the call is back in the for loop with a failure value in `attempt` and
\* candidates of the chosen box still to try.
C9_Witness ==
    /\ stack # <<>>
    /\ Top.pc = "attempt"
    /\ ret # Running
    /\ ~Truthy(ret)
    /\ Len(Top.todo) > 1
    /\ CompletionsOf(grid) # {}

\* C10: while a call of search is at its choice point, in the for loop or
\* waiting for an attempt, no step changes the board it holds: the pin of
\* the chosen box, the propagation and the deeper search of an attempt
\* change only the copy made for that attempt.
C10_BranchesIsolated ==
    [][\A i \in DOMAIN stack :
          (stack[i].pc \in {"for", "attempt"} /\ i \in DOMAIN stack')
              => /\ stack[i].values \in DOMAIN heap'
                 /\ heap'[stack[i].values] = heap[stack[i].values]
                 /\ stack'[i].values = stack[i].values]_vars

\* An attempt has failed after changing its own copy, and the call is back
\* in the for loop, below the first call, with a candidate left to try.
C10_Witness ==
    /\ InFrame("for")
    /\ Top.todo # <<>>
    /\ Len(Top.todo) < len(Cur[Top.s])
    /\ Len(stack) > 1

\* C8: solve on the blank grid terminates and returns a board with one
\* digit in every box in which every row, column and block holds each
\* digit once.
C8_BlankGridSolved ==
    (grid = Blank) ~>
        (/\ Done
         /\ ret.kind = "dict"
         /\ is_solved(ret.values)
         /\ StandardValid(ret.values))

\* solve has returned a board for the blank grid.
C8_Witness ==
    /\ grid = Blank
    /\ Done
    /\ ret.kind = "dict"
    /\ StandardValid(ret.values)

\* C6: a call of assign_value with the candidate set the box already has
\* changes no box of the board and appends nothing to the assignment log,
\* for every box and every candidate set, a single digit included.
C6_SameValueNoOp ==
    [][\A box \in Range(boxes) : \A value \in SUBSET AllDigits :
          (heap[1][box] = value /\ AssignValue(box, value))
              => (heap' = heap /\ assignments' = assignments)]_vars

\* A box was given a single digit and then the same digit again: both
\* calls are made, and the log holds the one snapshot of the first.
C6_Witness ==
    /\ Len(calls) = 2
    /\ calls[1] = calls[2]
    /\ len(calls[1].value) = 1
    /\ heap[1][calls[1].box] = calls[1].value
    /\ Len(assignments) = 1

=============================================================================
